---- MODULE Spec2Model ----
(***************************************************************************)
(* Model of src/ni_daqmx.c: the NI-DAQmx signal I/O plugin.                *)
(*                                                                         *)
(* One caller thread invokes the public operations one after the other     *)
(* (InitDevice, EndDevice, Reset, HasError, GetMaxInputSamplesNumber,      *)
(* Read, CheckInputChannel, Write, AcquireOutputChannel,                   *)
(* ReleaseOutputChannel).  An operation is one atomic step, except that    *)
(* CheckTask blocks in Thread_WaitExit: there the caller waits and the     *)
(* worker threads keep running.  Worker threads (AsyncReadBuffer,          *)
(* AsyncWriteBuffer) run in parallel: setting isRunning is one step, each  *)
(* turn of the loop (the test of isRunning and the DAQmx transfer that     *)
(* follows it) is one step.                                                *)
(*                                                                         *)
(* Undefined behaviour is a nondeterministic choice: the access faults     *)
(* (err becomes the kind of the fault and the program stops there), or it  *)
(* goes unnoticed and yields an arbitrary value.  A thread left working on *)
(* a task that was freed faults or returns unnoticed; it is not followed   *)
(* into the memory of objects allocated later.                             *)
(***************************************************************************)
EXTENDS Integers, Sequences, FiniteSets, TLC

VARIABLES
  machine,     \* the DAQmx task names configured on the machine (never changes)
  tasksList,   \* the khash registry: [alloc, keys]; alloc = FALSE is tasksList == NULL
  task,        \* key -> SignalIOTaskData (the heap object the registry entry points to)
  hw,          \* task name -> number of live DAQmx contexts (loaded and not cleared)
  workers,     \* thread handle -> the thread: [pc, key, kind]
  caller,      \* the caller thread: idle, or blocked in Thread_WaitExit
  readers,     \* further caller threads, which call CheckInputChannel at the same
               \*   time: each outside a call, or between its test and its increment
  last,        \* the last completed public operation and what it returned
  held,        \* history: (key, channel) pairs AcquireOutputChannel reserved and
               \*   ReleaseOutputChannel has not cleared since
  calls,       \* history: key -> channel -> CheckInputChannel calls since the task was loaded
               \*   (kept only by the specification that starts it as a counter)
  round,       \* history: thread -> errorCode of the transfer of its last loop turn
  phase,       \* history: key -> "none" (no task), "fresh" (loaded, nothing reserved yet),
               \*   "reserved" (a reservation has succeeded), "quiet" (a release emptied
               \*   the task and stopped it, and nothing was reserved since)
  err          \* "none", or the fault the program stopped with

vars == <<machine, tasksList, task, hw, workers, caller, readers, last, held, calls,
          round, phase, err>>

----------------------------------------------------------------------------
(* Program constants *)

AQUISITION_BUFFER_LENGTH == 10
SIGNAL_INPUT_CHANNEL_MAX_USES == 5
READ == TRUE
WRITE == FALSE
THREAD_INVALID_HANDLE == 0
Half == 65536             \* 2^16: khint_t is 32 bits wide

(* Bounds of the model *)

MaxThreads == 2        \* thread handles are 1..MaxThreads
MaxChannelArg == 3     \* channel arguments are 0..MaxChannelArg
MaxValue == 1          \* values written are 1..MaxValue
MaxCallers == 2        \* the caller threads of concurrent calls are 1..MaxCallers

(* The environment: the DAQmx tasks configured on the machine *)

NameIn == <<105, 110>>          \* "in": an analog input task
NameOut == <<111, 117, 116>>    \* "out": an analog output task
TaskNames == {NameIn, NameOut}

\* DAQmxGetTaskAttribute( handle, DAQmx_Task_NumChans )
HwNumChans(name) == IF name = NameIn THEN 1 ELSE 2
\* DAQmxGetReadAttribute( handle, DAQmx_Read_NumChans )
HwReadChans(name) == IF name = NameIn THEN HwNumChans(name) ELSE 0

\* the machines considered: one with the input task, one with the output task
Machines == {{NameIn}, {NameOut}}

\* what DAQmxLoadTask / DAQmxGetTaskAttribute / DAQmxStartTask can answer for a
\* task name: DAQmxLoadTask fails for a name the machine does not have
LoadOutcomes(name) ==
  IF name \in machine THEN {"ok", "loadFailed", "attributeFailed", "startFailed"}
  ELSE {"loadFailed"}

----------------------------------------------------------------------------
(* kh_str_hash_func: khash's X31 string hash, h = (h << 5) - h + c on a 32-bit
   unsigned khint_t, then cast to int.  The 32-bit value is kept as two 16-bit
   halves <<hi, lo>>. *)

RECURSIVE X31(_, _)
X31(h, s) ==
  IF s = <<>> THEN h
  ELSE LET lo == h[2] * 31 + Head(s)
           hi == h[1] * 31 + (lo \div Half)
       IN X31(<<hi % Half, lo % Half>>, Tail(s))

kh_str_hash_func(s) == IF s = <<>> THEN <<0, 0>> ELSE X31(<<0, Head(s)>>, Tail(s))

\* (int) of a khint_t: two's complement
ToInt(h) == IF h[1] >= Half \div 2 THEN (h[1] - Half) * Half + h[2] ELSE h[1] * Half + h[2]

TaskKey(name) == ToInt(kh_str_hash_func(name))

Keys == {TaskKey(n) : n \in TaskNames}
Threads == 1..MaxThreads
ChannelArgs == 0..MaxChannelArg
Values == 1..MaxValue
Callers == 1..MaxCallers

----------------------------------------------------------------------------
(* Data *)

NoArray == [c \in {} |-> 0]
ZeroArray(n) == [c \in 0..(n - 1) |-> 0]

\* a registry slot without a task object
NoTask ==
  [alloc |-> FALSE, handle |-> <<>>, threadID |-> THREAD_INVALID_HANDLE,
   isRunning |-> FALSE, mode |-> WRITE, channelUsesList |-> NoArray,
   channelsNumber |-> 0, samplesList |-> 0, channelValuesList |-> NoArray]

\* a thread handle: unused; of a thread that has returned
NoThread == [pc |-> "none", key |-> 0, kind |-> READ]
DoneThread == [pc |-> "done", key |-> 0, kind |-> READ]

Idle == [pc |-> "idle", op |-> "none", key |-> 0, channel |-> 0]

\* a caller thread that is not inside a CheckInputChannel call
Outside == [pc |-> "out", key |-> 0, channel |-> 0]

BoolInt(b) == IF b THEN 1 ELSE 0

\* what is remembered of a completed operation: which one, and what it returned
Result(op, key, channel, ret) == [op |-> op, ret |-> ret]

Live(w) == workers[w].pc \in {"start", "loop"}

\* threads of a finished worker are forgotten once no task holds their handle
Collect(ws, ts) ==
  [w \in Threads |->
     IF ws[w].pc = "done" /\ \A k \in Keys : ~(ts[k].alloc /\ ts[k].threadID = w)
     THEN NoThread ELSE ws[w]]

\* a handle Thread_Start can hand out for a thread of task k
FreeHandles(k) ==
  {w \in Threads :
     \/ workers[w].pc = "none"
     \/ /\ workers[w].pc = "done"
        /\ \A j \in Keys : (task[j].alloc /\ task[j].threadID = w) => j = k}

Min(S) == CHOOSE x \in S : \A y \in S : x <= y

----------------------------------------------------------------------------
\* the program after loading, on machine m; counting: the history of
\* CheckInputChannel calls is kept; recording: the history of transfers is kept
InitWith(m, counting, recording) ==
  /\ machine = m
  /\ tasksList = [alloc |-> FALSE, keys |-> {}]
  /\ task = [k \in Keys |-> NoTask]
  /\ hw = [n \in TaskNames |-> 0]
  /\ workers = [w \in Threads |-> NoThread]
  /\ caller = Idle
  /\ readers = [c \in Callers |-> Outside]
  /\ last = Result("none", 0, 0, 0)
  /\ held = {}
  /\ calls = [k \in Keys |-> IF counting THEN ZeroArray(MaxChannelArg + 1) ELSE NoArray]
  /\ round = IF recording THEN [w \in Threads |-> 0] ELSE NoArray
  /\ phase = [k \in Keys |-> "none"]
  /\ err = "none"

InitOn(m, counting) == InitWith(m, counting, FALSE)

Init == \E m \in Machines : InitOn(m, FALSE)

Ready == err = "none" /\ caller.pc = "idle"

\* the call counter stops one past the limit: "more than SIGNAL_INPUT_CHANNEL_MAX_USES calls"
CallsCap == SIGNAL_INPUT_CHANNEL_MAX_USES + 1

\* what a read one element past the end of channelUsesList can find there
OobValues == {0, 1, SIGNAL_INPUT_CHANNEL_MAX_USES}

\* what a successful DAQmxReadAnalogF64 reports in aquiredSamplesCount
AcquiredCounts == {AQUISITION_BUFFER_LENGTH}

----------------------------------------------------------------------------
(* A fault: the process is killed, and with it its registry, tasks and threads *)

Crash(kind) ==
  /\ err' = kind
  /\ tasksList' = [alloc |-> FALSE, keys |-> {}]
  /\ task' = [k \in Keys |-> NoTask]
  /\ workers' = [w \in Threads |-> NoThread]
  /\ caller' = Idle
  /\ last' = Result("none", 0, 0, 0)
  /\ held' = {}
  /\ calls' = [k \in Keys |-> NoArray]
  /\ phase' = [k \in Keys |-> "none"]
  /\ readers' = [c \in Callers |-> Outside]
  /\ round' = NoArray
  /\ UNCHANGED <<machine, hw>>

----------------------------------------------------------------------------
(* khash *)

\* kh_get( TaskInt, tasksList, taskID ) != kh_end( tasksList )
Found(id) == id \in tasksList.keys

\* a kh_put that reports every key as new
PresentNever(key) == FALSE

\* kh_put( TaskInt, tasksList, taskKey, &insertionStatus ): insertionStatus == 0
Present(key) == tasksList.alloc /\ key \in tasksList.keys

\* an operation that returns ret and changes nothing
Return(op, id, channel, ret) ==
  /\ last' = Result(op, id, channel, ret)
  /\ UNCHANGED <<machine, round, readers, tasksList, task, hw, workers, caller, held, calls, phase, err>>

\* kh_get reads tasksList->n_buckets: with tasksList == NULL a read through a null
\* pointer, which faults or goes unnoticed and finds nothing
NullLookup(op, id, channel) ==
  /\ ~tasksList.alloc
  /\ \/ Crash("NullRegistry")
     \/ Return(op, id, channel, 0)

----------------------------------------------------------------------------
(* LoadTaskData / UnloadTaskData *)

\* a load that hands the task over already marked as running
LoadTaskDataRunning(name) ==
  [alloc |-> TRUE, handle |-> name, threadID |-> THREAD_INVALID_HANDLE,
   isRunning |-> TRUE,
   mode |-> IF HwReadChans(name) > 0 THEN READ ELSE WRITE,
   channelUsesList |-> ZeroArray(HwNumChans(name)),
   channelsNumber |-> HwNumChans(name),
   samplesList |-> 0,
   channelValuesList |-> ZeroArray(HwNumChans(name))]

\* the task LoadTaskData returns when every DAQmx call succeeds
LoadTaskData(name) ==
  [alloc |-> TRUE, handle |-> name, threadID |-> THREAD_INVALID_HANDLE,
   isRunning |-> FALSE,
   mode |-> IF HwReadChans(name) > 0 THEN READ ELSE WRITE,
   channelUsesList |-> ZeroArray(HwNumChans(name)),
   channelsNumber |-> HwNumChans(name),
   samplesList |-> 0,
   channelValuesList |-> ZeroArray(HwNumChans(name))]

\* UnloadTaskData( task ) for the task of key id: the object is freed, its DAQmx
\* context cleared.  Threads still working on it are left with a dangling pointer:
\* where the program goes on from here, their accesses to the freed object went
\* unnoticed (they read stale memory and get to return)
UnloadTaskData(id) ==
  LET ts == [task EXCEPT ![id] = NoTask]
  IN /\ task' = ts
     /\ hw' = [hw EXCEPT ![task[id].handle] = @ - 1]
     /\ workers' = Collect([w \in Threads |->
                              IF workers[w].key = id /\ Live(w)
                              THEN NoThread
                              ELSE workers[w]], ts)

----------------------------------------------------------------------------
(* CheckTask *)

\* a scan that stops before the last channel
IsStillUsedShort(t) == \E c \in 0..(t.channelsNumber - 2) : t.channelUsesList[c] > 0

\* CheckTask's scan: some channel of the task has a nonzero use count
IsStillUsed(t) == \E c \in 0..(t.channelsNumber - 1) : t.channelUsesList[c] > 0

\* CheckTask blocks in Thread_WaitExit: the task has a thread that has not exited
MustWait(t) == t.threadID # THREAD_INVALID_HANDLE /\ Live(t.threadID)

----------------------------------------------------------------------------
(* The checks of the channel operations *)

\* Read: if( task->mode == WRITE ) return 0
WrongModeForRead(t) == t.mode = WRITE

\* a Write without the mode check
WrongModeForWriteNever(t) == FALSE

\* Write: if( task->mode == READ ) return false
WrongModeForWrite(t) == t.mode = READ

\* CheckInputChannel: channelUsesList[ channel ] >= SIGNAL_INPUT_CHANNEL_MAX_USES
InputChannelFull(t, channel) == t.channelUsesList[channel] >= SIGNAL_INPUT_CHANNEL_MAX_USES

\* an AcquireOutputChannel without the check of the slot
OutputChannelTakenNever(t, channel) == FALSE

\* AcquireOutputChannel: channelUsesList[ channel ] == 1
OutputChannelTaken(t, channel) == t.channelUsesList[channel] = 1

----------------------------------------------------------------------------
(* Public operations *)

\* Reset( taskID ): nothing
Reset(id) ==
  /\ Ready
  /\ last' = Result("Reset", id, 0, 0)
  /\ UNCHANGED <<machine, round, readers, tasksList, task, hw, workers, caller, held, calls, phase, err>>

\* HasError( taskID ): false
HasError(id) ==
  /\ Ready
  /\ last' = Result("HasError", id, 0, BoolInt(FALSE))
  /\ UNCHANGED <<machine, round, readers, tasksList, task, hw, workers, caller, held, calls, phase, err>>

\* the arrays of the task LoadTaskData has allocated when the load ends with
\* outcome; the memset before clears sizeof(SignalIOTask) bytes, one pointer: the
\* handle, and leaves the other fields as malloc returned them
AllocatedOn(outcome) ==
  IF outcome = "ok"
  THEN {"channelUsesList", "samplesList", "channelValuesList", "channelLocksList"}
  ELSE IF outcome = "startFailed"
  THEN {"channelUsesList", "samplesList", "channelValuesList"}
  ELSE {}

\* the arrays UnloadTaskData reads through, whatever task->mode is:
\* Sem_Discard( task->channelLocksList[ ... ] )
UnloadDerefs == {"channelLocksList"}

\* how InitDevice can fault when the load ends with a failure: in UnloadTaskData,
\* on an array that was never allocated (if the access goes unnoticed the
\* operation goes on), and then in CheckTask( NULL ), called by EndDevice
FailedLoadFaults(outcome) ==
  (IF UnloadDerefs \subseteq AllocatedOn(outcome) THEN {} ELSE {"UninitRead"})
    \cup {"NullDeref"}

\* one more call of channel is counted, where calls are counted
Bump(a, channel) ==
  IF channel \in DOMAIN a
  THEN [a EXCEPT ![channel] = IF @ >= CallsCap THEN CallsCap ELSE @ + 1]
  ELSE a

\* the counters of a task that was just loaded
Restart(a) == [c \in DOMAIN a |-> 0]

\* InitDevice( taskName )
InitDevice(name) ==
  /\ Ready
  /\ LET key == TaskKey(name)
     IN IF Present(key)
        THEN Return("InitDevice", key, 0, key)
        ELSE \E outcome \in LoadOutcomes(name) :
               IF outcome = "ok"
               THEN /\ tasksList' = [alloc |-> TRUE, keys |-> tasksList.keys \cup {key}]
                    /\ task' = [task EXCEPT ![key] = LoadTaskData(name)]
                    /\ hw' = [hw EXCEPT ![name] = @ + 1]
                    /\ last' = Result("InitDevice", key, 0, key)
                    /\ calls' = [calls EXCEPT ![key] = Restart(@)]
                    /\ phase' = [phase EXCEPT ![key] = "fresh"]
                    /\ UNCHANGED <<machine, round, readers, workers, caller, held, err>>
               ELSE \* LoadTaskData unloads the partly built task and returns NULL;
                    \* EndDevice( taskKey ) then hands the NULL entry to CheckTask
                    \E kind \in FailedLoadFaults(outcome) : Crash(kind)

\* a registry that is kept when its last entry is deleted
kh_delKeepsRegistry(id) == [alloc |-> TRUE, keys |-> tasksList.keys \ {id}]

\* kh_del( TaskInt, tasksList, taskID ), and kh_destroy with tasksList = NULL
\* if kh_size( tasksList ) == 0
kh_del(id) ==
  IF tasksList.keys \ {id} = {} THEN [alloc |-> FALSE, keys |-> {}]
  ELSE [alloc |-> TRUE, keys |-> tasksList.keys \ {id}]

\* EndDevice from UnloadTaskData on: the entry is deleted, the empty registry
\* destroyed; a thread still working on the freed task faults, or goes unnoticed
FinishEndDevice(id) ==
  \/ /\ \E w \in Threads : workers[w].key = id /\ Live(w)
     /\ Crash("UseAfterFree")
  \/ /\ UnloadTaskData(id)
     /\ tasksList' = kh_del(id)
     /\ caller' = Idle
     /\ last' = Result("EndDevice", id, 0, 0)
     /\ phase' = [phase EXCEPT ![id] = "none"]
     /\ UNCHANGED <<machine, round, readers, held, calls, err>>

\* EndDevice( taskID )
EndDevice(id) ==
  /\ Ready
  /\ \/ NullLookup("EndDevice", id, 0)
     \/ /\ tasksList.alloc
        /\ IF ~Found(id) THEN Return("EndDevice", id, 0, 0)
           ELSE IF IsStillUsed(task[id]) THEN Return("EndDevice", id, 0, 0)
           ELSE IF MustWait(task[id])
           THEN /\ task' = [task EXCEPT ![id].isRunning = FALSE]
                /\ caller' = [pc |-> "wait", op |-> "EndDevice", key |-> id, channel |-> 0]
                /\ UNCHANGED <<machine, round, readers, tasksList, hw, workers, last, held, calls, phase, err>>
           ELSE FinishEndDevice(id)

\* GetMaxInputSamplesNumber( taskID )
GetMaxInputSamplesNumber(id) ==
  /\ Ready
  /\ \/ NullLookup("GetMaxInputSamplesNumber", id, 0)
     \/ /\ tasksList.alloc
        /\ IF ~Found(id) THEN Return("GetMaxInputSamplesNumber", id, 0, 0)
           ELSE IF task[id].mode = WRITE THEN Return("GetMaxInputSamplesNumber", id, 0, 0)
           ELSE Return("GetMaxInputSamplesNumber", id, 0, AQUISITION_BUFFER_LENGTH)

\* Read( taskID, channel, channelSamplesList )
Read(id, channel) ==
  /\ Ready
  /\ \/ NullLookup("Read", id, channel)
     \/ /\ tasksList.alloc
        /\ IF ~Found(id) THEN Return("Read", id, channel, 0)
           ELSE IF channel >= task[id].channelsNumber THEN Return("Read", id, channel, 0)
           ELSE IF ~task[id].isRunning THEN Return("Read", id, channel, 0)
           ELSE IF WrongModeForRead(task[id]) THEN Return("Read", id, channel, 0)
           ELSE Return("Read", id, channel, task[id].channelValuesList[channel])

\* Thread_Start( f, task, THREAD_JOINABLE ) when the task is not running: the task
\* and the threads afterwards, t being the task after the operation's own writes
StartIfStopped(id, t, kind) ==
  IF t.isRunning
  THEN /\ task' = [task EXCEPT ![id] = t]
       /\ workers' = workers
  ELSE /\ FreeHandles(id) # {}
       /\ LET w == Min(FreeHandles(id))
              ts == [task EXCEPT ![id] = [t EXCEPT !.threadID = w]]
          IN /\ task' = ts
             /\ workers' = Collect([workers EXCEPT ![w] =
                                      [pc |-> "start", key |-> id, kind |-> kind]],
                                   ts)

\* CheckInputChannel( taskID, channel )
CheckInputChannel(id, channel) ==
  /\ Ready
  /\ \/ NullLookup("CheckInputChannel", id, channel)
     \/ /\ tasksList.alloc
        /\ IF ~Found(id) THEN Return("CheckInputChannel", id, channel, BoolInt(FALSE))
           ELSE IF task[id].mode = WRITE
           THEN Return("CheckInputChannel", id, channel, BoolInt(FALSE))
           ELSE IF channel > task[id].channelsNumber
           THEN Return("CheckInputChannel", id, channel, BoolInt(FALSE))
           ELSE IF channel = task[id].channelsNumber
           THEN \* channelUsesList[ channelsNumber ] is one past the end of the array
                \E u \in OobValues \cup {-1} :
                  IF u = -1
                  THEN Crash("OutOfBounds")
                  ELSE IF u >= SIGNAL_INPUT_CHANNEL_MAX_USES
                  THEN Return("CheckInputChannel", id, channel, BoolInt(FALSE))
                  ELSE /\ StartIfStopped(id, task[id], READ)
                       /\ last' = Result("CheckInputChannel", id, channel, BoolInt(TRUE))
                       /\ phase' = [phase EXCEPT ![id] = "reserved"]
                       /\ UNCHANGED <<machine, round, readers, tasksList, hw, caller, held, calls, err>>
           ELSE IF InputChannelFull(task[id], channel)
           THEN /\ last' = Result("CheckInputChannel", id, channel, BoolInt(FALSE))
                /\ calls' = [calls EXCEPT ![id] = Bump(@, channel)]
                /\ UNCHANGED <<machine, round, readers, tasksList, task, hw, workers, caller, held, phase, err>>
           ELSE /\ StartIfStopped(id, [task[id] EXCEPT !.channelUsesList[channel] = @ + 1],
                                  READ)
                /\ last' = Result("CheckInputChannel", id, channel, BoolInt(TRUE))
                /\ calls' = [calls EXCEPT ![id] = Bump(@, channel)]
                /\ phase' = [phase EXCEPT ![id] = "reserved"]
                /\ UNCHANGED <<machine, round, readers, tasksList, hw, caller, held, err>>

\* CheckInputChannel( taskID, channel ) called by caller thread c while other
\* threads call it too, up to the test of the use count: the thread returns false,
\* or has passed the test
CheckInputChannelTest(c, id, channel) ==
  /\ err = "none"
  /\ readers[c].pc = "out"
  /\ \/ NullLookup("CheckInputChannel", id, channel)
     \/ /\ tasksList.alloc
        /\ IF ~Found(id) THEN Return("CheckInputChannel", id, channel, BoolInt(FALSE))
           ELSE IF task[id].mode = WRITE
           THEN Return("CheckInputChannel", id, channel, BoolInt(FALSE))
           ELSE IF channel > task[id].channelsNumber
           THEN Return("CheckInputChannel", id, channel, BoolInt(FALSE))
           ELSE IF channel < task[id].channelsNumber /\ InputChannelFull(task[id], channel)
           THEN Return("CheckInputChannel", id, channel, BoolInt(FALSE))
           ELSE \E u \in OobValues \cup {-1} :
                  IF channel = task[id].channelsNumber /\ u = -1
                  THEN Crash("OutOfBounds")
                  ELSE IF channel = task[id].channelsNumber
                          /\ u >= SIGNAL_INPUT_CHANNEL_MAX_USES
                  THEN Return("CheckInputChannel", id, channel, BoolInt(FALSE))
                  ELSE /\ readers' = [readers EXCEPT ![c] =
                                        [pc |-> "checked", key |-> id, channel |-> channel]]
                       /\ UNCHANGED <<machine, round, tasksList, task, hw, workers,
                                      caller, last, held, calls, phase, err>>

\* the rest of that call: task->channelUsesList[ channel ]++, the thread is started
\* if the task is not running, and the call returns true
CheckInputChannelTake(c) ==
  /\ err = "none"
  /\ readers[c].pc = "checked"
  /\ LET id == readers[c].key
         channel == readers[c].channel
     IN /\ StartIfStopped(id,
                          IF channel < task[id].channelsNumber
                          THEN [task[id] EXCEPT !.channelUsesList[channel] = @ + 1]
                          ELSE task[id],
                          READ)
        /\ last' = Result("CheckInputChannel", id, channel, BoolInt(TRUE))
        /\ phase' = [phase EXCEPT ![id] = "reserved"]
  /\ readers' = [readers EXCEPT ![c] = Outside]
  /\ UNCHANGED <<machine, round, tasksList, hw, caller, held, calls, err>>

\* Write( taskID, channel, value )
Write(id, channel, value) ==
  /\ Ready
  /\ \/ NullLookup("Write", id, channel)
     \/ /\ tasksList.alloc
        /\ IF ~Found(id) THEN Return("Write", id, channel, BoolInt(FALSE))
           ELSE IF ~task[id].isRunning THEN Return("Write", id, channel, BoolInt(FALSE))
           ELSE IF WrongModeForWrite(task[id]) THEN Return("Write", id, channel, BoolInt(FALSE))
           ELSE IF channel > task[id].channelsNumber
           THEN Return("Write", id, channel, BoolInt(FALSE))
           ELSE IF channel = task[id].channelsNumber
           THEN \* channelValuesList[ channelsNumber ] is one past the end of the array
                \E fault \in BOOLEAN :
                  IF fault
                  THEN Crash("OutOfBounds")
                  ELSE Return("Write", id, channel, BoolInt(TRUE))
           ELSE /\ task' = [task EXCEPT ![id].channelValuesList[channel] = value]
                /\ last' = Result("Write", id, channel, BoolInt(TRUE))
                /\ UNCHANGED <<machine, round, readers, tasksList, hw, workers, caller, held, calls, phase, err>>

\* AcquireOutputChannel( taskID, channel )
AcquireOutputChannel(id, channel) ==
  /\ Ready
  /\ \/ NullLookup("AcquireOutputChannel", id, channel)
     \/ /\ tasksList.alloc
        /\ IF ~Found(id) THEN Return("AcquireOutputChannel", id, channel, BoolInt(FALSE))
           ELSE IF task[id].mode = READ
           THEN Return("AcquireOutputChannel", id, channel, BoolInt(FALSE))
           ELSE IF channel > task[id].channelsNumber
           THEN Return("AcquireOutputChannel", id, channel, BoolInt(FALSE))
           ELSE IF channel = task[id].channelsNumber
           THEN \* channelUsesList[ channelsNumber ] is one past the end of the array
                \E u \in OobValues \cup {-1} :
                  IF u = -1
                  THEN Crash("OutOfBounds")
                  ELSE IF u = 1
                  THEN Return("AcquireOutputChannel", id, channel, BoolInt(FALSE))
                  ELSE /\ StartIfStopped(id, task[id], WRITE)
                       /\ last' = Result("AcquireOutputChannel", id, channel, BoolInt(TRUE))
                       /\ phase' = [phase EXCEPT ![id] = "reserved"]
                       /\ UNCHANGED <<machine, round, readers, tasksList, hw, caller, held, calls, err>>
           ELSE IF OutputChannelTaken(task[id], channel)
           THEN Return("AcquireOutputChannel", id, channel, BoolInt(FALSE))
           ELSE /\ StartIfStopped(id, [task[id] EXCEPT !.channelUsesList[channel] = 1],
                                  WRITE)
                /\ last' = Result("AcquireOutputChannel", id, channel, BoolInt(TRUE))
                /\ held' = held \cup {<<id, channel>>}
                /\ phase' = [phase EXCEPT ![id] = "reserved"]
                /\ UNCHANGED <<machine, round, readers, tasksList, hw, caller, calls, err>>

\* ReleaseOutputChannel from CheckTask on, t being the task after the slot was cleared
ReleaseCheckTask(id, channel, t) ==
  IF IsStillUsed(t)
  THEN /\ task' = [task EXCEPT ![id] = t]
       /\ phase' = phase
       /\ caller' = caller
       /\ last' = Result("ReleaseOutputChannel", id, channel, 0)
  ELSE /\ task' = [task EXCEPT ![id] = [t EXCEPT !.isRunning = FALSE]]
       /\ phase' = [phase EXCEPT ![id] = "quiet"]
       /\ IF MustWait(t)
          THEN /\ caller' = [pc |-> "wait", op |-> "ReleaseOutputChannel",
                             key |-> id, channel |-> channel]
               /\ last' = last
          ELSE /\ caller' = caller
               /\ last' = Result("ReleaseOutputChannel", id, channel, 0)

\* ReleaseOutputChannel( taskID, channel )
ReleaseOutputChannel(id, channel) ==
  /\ Ready
  /\ \/ NullLookup("ReleaseOutputChannel", id, channel)
     \/ /\ tasksList.alloc
        /\ IF ~Found(id) THEN Return("ReleaseOutputChannel", id, channel, 0)
           ELSE IF ~task[id].isRunning THEN Return("ReleaseOutputChannel", id, channel, 0)
           ELSE IF channel > task[id].channelsNumber
           THEN Return("ReleaseOutputChannel", id, channel, 0)
           ELSE IF channel = task[id].channelsNumber
           THEN \* channelUsesList[ channelsNumber ] is one past the end of the array
                \E fault \in BOOLEAN :
                  IF fault
                  THEN Crash("OutOfBounds")
                  ELSE /\ ReleaseCheckTask(id, channel, task[id])
                       /\ UNCHANGED <<machine, round, readers, tasksList, hw, workers, held, calls, err>>
           ELSE /\ ReleaseCheckTask(id, channel,
                                    [task[id] EXCEPT !.channelUsesList[channel] = 0])
                /\ held' = held \ {<<id, channel>>}
                /\ UNCHANGED <<machine, round, readers, tasksList, hw, workers, calls, err>>

\* Thread_WaitExit( task->threadID, 5000 ) returns: the thread has exited, or the
\* timeout has elapsed; CheckTask returns false to EndDevice or ReleaseOutputChannel
Thread_WaitExit ==
  /\ err = "none"
  /\ caller.pc = "wait"
  /\ IF caller.op = "EndDevice"
     THEN FinishEndDevice(caller.key)
     ELSE /\ caller' = Idle
          /\ last' = Result("ReleaseOutputChannel", caller.key, caller.channel, 0)
          /\ UNCHANGED <<machine, round, readers, tasksList, task, hw, workers, held, calls, phase, err>>

----------------------------------------------------------------------------
(* Worker threads *)

Mine(w) == workers[w].key

\* the thread returns
Exit(w) == workers' = Collect([workers EXCEPT ![w] = DoneThread], task)

\* AsyncReadBuffer / AsyncWriteBuffer: task->isRunning = true
AsyncStart(w) ==
  /\ err = "none"
  /\ workers[w].pc = "start"
  /\ task' = [task EXCEPT ![Mine(w)].isRunning = TRUE]
  /\ workers' = [workers EXCEPT ![w].pc = "loop"]
  /\ UNCHANGED <<machine, round, readers, tasksList, hw, caller, last, held, calls, phase, err>>

\* the errorCode of thread w's transfer is recorded, where transfers are recorded
Record(a, w, errorCode) == IF w \in DOMAIN a THEN [a EXCEPT ![w] = errorCode] ELSE a

\* a thread that returns when a transfer fails
PollingUntilError(w, errorCode) ==
  IF errorCode < 0 THEN Collect([workers EXCEPT ![w] = DoneThread], task) ELSE workers

\* the threads after thread w's transfer has returned errorCode: the error
\* message is fetched, if any, and the thread is back at while( task->isRunning )
Polling(w, errorCode) == workers

\* AsyncReadBuffer, one turn of while( task->isRunning ): DAQmxReadAnalogF64
\* returns; on success every channel's channelValuesList slot is set to the count
\* read; with isRunning false the thread returns
AsyncReadBuffer(w) ==
  /\ err = "none"
  /\ workers[w].pc = "loop" /\ workers[w].kind = READ
  /\ IF task[Mine(w)].isRunning
     THEN \E errorCode \in {-1, 0}, n \in AcquiredCounts, s \in Values :
            /\ IF errorCode < 0
               THEN task' = task
               ELSE task' = [task EXCEPT ![Mine(w)] =
                               [task[Mine(w)] EXCEPT
                                  !.samplesList = s,
                                  !.channelValuesList =
                                     [c \in 0..(task[Mine(w)].channelsNumber - 1) |-> n]]]
            /\ workers' = Polling(w, errorCode)
            /\ round' = Record(round, w, errorCode)
     ELSE /\ Exit(w)
          /\ task' = task
          /\ round' = Record(round, w, 0)
  /\ UNCHANGED <<machine, readers, tasksList, hw, caller, last, held, calls, phase, err>>

\* AsyncWriteBuffer, one turn of while( task->isRunning ): DAQmxWriteAnalogF64
\* returns, with or without an error; with isRunning false the thread returns
AsyncWriteBuffer(w) ==
  /\ err = "none"
  /\ workers[w].pc = "loop" /\ workers[w].kind = WRITE
  /\ IF task[Mine(w)].isRunning
     THEN \E errorCode \in {-1, 0} :
            /\ workers' = Polling(w, errorCode)
            /\ round' = Record(round, w, errorCode)
     ELSE /\ Exit(w)
          /\ round' = Record(round, w, 0)
  /\ UNCHANGED <<machine, readers, tasksList, task, hw, caller, last, held, calls, phase, err>>

----------------------------------------------------------------------------
\* the public operations, as the caller can invoke them
Calls(names) ==
  \/ \E name \in names : InitDevice(name)
  \/ \E id \in Keys : EndDevice(id)
  \/ \E id \in Keys : Reset(id)
  \/ \E id \in Keys : HasError(id)
  \/ \E id \in Keys : GetMaxInputSamplesNumber(id)
  \/ \E id \in Keys, channel \in ChannelArgs : Read(id, channel)
  \/ \E id \in Keys, channel \in ChannelArgs : CheckInputChannel(id, channel)
  \/ \E id \in Keys, channel \in ChannelArgs, value \in Values : Write(id, channel, value)
  \/ \E id \in Keys, channel \in ChannelArgs : AcquireOutputChannel(id, channel)
  \/ \E id \in Keys, channel \in ChannelArgs : ReleaseOutputChannel(id, channel)
  \/ Thread_WaitExit

Next ==
  \/ Calls(TaskNames)
  \/ \E w \in Threads : AsyncStart(w)
  \/ \E w \in Threads : AsyncReadBuffer(w)
  \/ \E w \in Threads : AsyncWriteBuffer(w)

\* the machine with the input task: no AsyncWriteBuffer thread is ever started
NextIn ==
  \/ Calls(TaskNames)
  \/ \E w \in Threads : AsyncStart(w)
  \/ \E w \in Threads : AsyncReadBuffer(w)

\* the machine with the output task: no AsyncReadBuffer thread is ever started
NextOut ==
  \/ Calls(TaskNames)
  \/ \E w \in Threads : AsyncStart(w)
  \/ \E w \in Threads : AsyncWriteBuffer(w)

\* the machine with the input task, with caller threads that call
\* CheckInputChannel at the same time
NextRace ==
  \/ \E name \in TaskNames : InitDevice(name)
  \/ \E c \in Callers, id \in Keys, channel \in ChannelArgs :
       CheckInputChannelTest(c, id, channel)
  \/ \E c \in Callers : CheckInputChannelTake(c)
  \/ \E w \in Threads : AsyncStart(w)
  \/ \E w \in Threads : AsyncReadBuffer(w)

\* the operations that start and stop worker threads, and the threads
NextRound ==
  \/ \E name \in TaskNames : InitDevice(name)
  \/ \E id \in Keys : EndDevice(id)
  \/ \E id \in Keys, channel \in ChannelArgs : CheckInputChannel(id, channel)
  \/ \E id \in Keys, channel \in ChannelArgs : AcquireOutputChannel(id, channel)
  \/ \E id \in Keys, channel \in ChannelArgs : ReleaseOutputChannel(id, channel)
  \/ Thread_WaitExit
  \/ \E w \in Threads : AsyncStart(w)
  \/ \E w \in Threads : AsyncReadBuffer(w)
  \/ \E w \in Threads : AsyncWriteBuffer(w)

Spec == Init /\ [][Next]_vars
SpecRace == InitOn({NameIn}, FALSE) /\ [][NextRace]_vars
SpecRegistry == InitOn({NameIn, NameOut}, FALSE) /\ [][NextRound]_vars
SpecRound == (\E m \in Machines : InitWith(m, FALSE, TRUE)) /\ [][NextRound]_vars

\* the machine with the input task, with the history of CheckInputChannel calls
SpecIn == InitOn({NameIn}, TRUE) /\ [][NextIn]_vars
SpecOut == InitOn({NameOut}, FALSE) /\ [][NextOut]_vars

\* the scheduler runs every thread that can take a step, and Thread_WaitExit
\* returns (after 5000 ms at the latest)
Fairness ==
  /\ WF_vars(Thread_WaitExit)
  /\ \A w \in Threads :
       /\ WF_vars(AsyncStart(w))
       /\ WF_vars(AsyncReadBuffer(w))
       /\ WF_vars(AsyncWriteBuffer(w))

FairSpecOut == SpecOut /\ Fairness
----------------------------------------------------------------------------
(* The properties.  Their vocabulary is defined here, apart from the operators
   that model the code. *)

\* taskID has an entry in the registry
Registered(id) == tasksList.alloc /\ id \in tasksList.keys

\* some channel of task t has a nonzero reservation slot
Reserved(t) == \E c \in DOMAIN t.channelUsesList : t.channelUsesList[c] # 0

\* channel is one of the channels 0 .. channelsNumber - 1 of task t
InRange(t, channel) == channel \in DOMAIN t.channelUsesList

\* the threads working on the task of key id
ThreadsOf(id) == {w \in Threads : Live(w) /\ workers[w].key = id}

\* the channel operations
ReserveOp(id, channel) == CheckInputChannel(id, channel) \/ AcquireOutputChannel(id, channel)

ChannelOp(id, channel) ==
  \/ ReserveOp(id, channel)
  \/ Read(id, channel)
  \/ \E value \in Values : Write(id, channel, value)
  \/ ReleaseOutputChannel(id, channel)

\* the step ends a reservation call (a call that ends without a fault leaves its
\* name in last)
Reserving == last'.op \in {"CheckInputChannel", "AcquireOutputChannel"}

\* the public operations that take a task identifier
AnyOp(id) ==
  \/ EndDevice(id) \/ Reset(id) \/ HasError(id) \/ GetMaxInputSamplesNumber(id)
  \/ \E channel \in ChannelArgs : ChannelOp(id, channel)

\* C1: a second InitDevice of a name whose task is registered returns the key the
\* first returned, loads no second DAQmx context and leaves the registry, the
\* tasks and the threads as they are; no name ever has two live contexts.
C1_OpenIdempotent ==
  /\ [](\A name \in TaskNames : hw[name] <= 1)
  /\ [][\A name \in TaskNames :
          (Registered(TaskKey(name)) /\ InitDevice(name))
            => /\ last' = Result("InitDevice", TaskKey(name), 0, TaskKey(name))
               /\ UNCHANGED <<tasksList, task, hw, workers, err>>]_vars

\* InitDevice has returned the key of a registered task that has a reserved channel
\* (a task just loaded has none: the call was a second one)
C1_Witness ==
  /\ last.op = "InitDevice"
  /\ last.ret \in Keys
  /\ Registered(last.ret)
  /\ Reserved(task[last.ret])

\* C2: EndDevice on a registered task with a nonzero reservation slot leaves it
\* registered and loaded; EndDevice on a registered task with all slots zero ends
\* (at once, or when its wait for the thread is over) with the task unloaded and
\* its entry removed; no step of a program that goes on frees a task that has a
\* nonzero slot.
C2_CloseOnlyWhenUnreserved ==
  [][\A id \in Keys :
       /\ (Registered(id) /\ Reserved(task[id]) /\ EndDevice(id))
            => (Registered(id)' /\ UNCHANGED <<task, hw, workers, tasksList, err>>)
       /\ (Registered(id) /\ ~Reserved(task[id]) /\ EndDevice(id) /\ err' = "none")
            => \/ caller'.pc = "wait" /\ caller'.key = id /\ Registered(id)'
               \/ ~Registered(id)' /\ ~task'[id].alloc /\ hw'[task[id].handle] = 0
       /\ (caller.pc = "wait" /\ caller.op = "EndDevice" /\ caller.key = id
             /\ Thread_WaitExit /\ err' = "none")
            => (~Registered(id)' /\ ~task'[id].alloc /\ hw'[task[id].handle] = 0)
       /\ (task[id].alloc /\ ~task'[id].alloc /\ err' = "none")
            => ~Reserved(task[id])]_vars

\* EndDevice has returned and the registered task, which has a reserved channel, is
\* still loaded
C2_Witness ==
  /\ last.op = "EndDevice"
  /\ \E id \in Keys : Registered(id) /\ task[id].alloc /\ Reserved(task[id])

\* C3: every channel operation on a registered task with a channel index at or
\* above channelsNumber returns 0, faults nowhere and leaves the tasks and the
\* threads as they are.
C3_OutOfRangeFails ==
  [][\A id \in Keys, channel \in ChannelArgs :
       (Registered(id) /\ channel >= task[id].channelsNumber /\ ChannelOp(id, channel))
         => (err' = "none" /\ last'.ret = 0 /\ UNCHANGED <<task, workers>>)]_vars

\* C4: on a READ task, a CheckInputChannel of an in-range channel returns true if
\* fewer than SIGNAL_INPUT_CHANNEL_MAX_USES calls were made on that channel since
\* the task was loaded, and otherwise returns false and leaves the use counts as
\* they are.
C4_FiveThenRefused ==
  [][\A id \in Keys, channel \in ChannelArgs :
       (Registered(id) /\ task[id].mode = READ /\ InRange(task[id], channel)
          /\ CheckInputChannel(id, channel))
         => IF calls[id][channel] < SIGNAL_INPUT_CHANNEL_MAX_USES
            THEN last'.ret = 1
            ELSE /\ last'.ret = 0
                 /\ task'[id].channelUsesList = task[id].channelUsesList]_vars

\* C5: a channel AcquireOutputChannel has reserved and ReleaseOutputChannel has not
\* cleared since keeps its slot at 1 on a registered task, whatever else is
\* called, and an AcquireOutputChannel of it returns false and changes nothing.
C5_NoSecondReservation ==
  /\ [](\A p \in held : Registered(p[1]) /\ task[p[1]].channelUsesList[p[2]] = 1)
  /\ [][\A p \in held :
          AcquireOutputChannel(p[1], p[2])
            => (last'.ret = 0 /\ UNCHANGED <<task, workers, held, err>>)]_vars

\* AcquireOutputChannel has returned false while every channel of the task is held
C5_Witness ==
  /\ last.op = "AcquireOutputChannel"
  /\ last.ret = 0
  /\ \E id \in Keys :
       /\ Registered(id)
       /\ task[id].channelsNumber > 0
       /\ \A c \in DOMAIN task[id].channelUsesList : <<id, c>> \in held

\* C6: Read on a WRITE task returns 0 and Write on a READ task returns false, for
\* every channel argument and in every state, and neither changes any task.
C6_DirectionMismatchFails ==
  [][\A id \in Keys, channel \in ChannelArgs :
       /\ (Registered(id) /\ task[id].mode = WRITE /\ last'.op = "Read" /\ Read(id, channel))
            => (last'.ret = 0 /\ UNCHANGED <<task, workers, err>>)
       /\ (Registered(id) /\ task[id].mode = READ /\ last'.op = "Write"
             /\ \E value \in Values : Write(id, channel, value))
            => (last'.ret = 0 /\ UNCHANGED <<task, workers, err>>)]_vars

\* Write has returned false on a READ task that is running
C6_Witness ==
  /\ last.op = "Write"
  /\ last.ret = 0
  /\ \E id \in Keys : Registered(id) /\ task[id].mode = READ /\ task[id].isRunning

\* C7: a task that was loaded and on which no reservation has succeeded is not
\* running and has no thread; the first reservation that succeeds starts a thread
\* of the kind of the task's mode and stores its handle; a reservation that
\* returns false changes neither the tasks nor the threads.
C7_LazyWorkerStart ==
  /\ [](\A id \in Keys :
          phase[id] = "fresh"
            => /\ Registered(id)
               /\ ~task[id].isRunning
               /\ task[id].threadID = THREAD_INVALID_HANDLE
               /\ ThreadsOf(id) = {})
  /\ [][\A id \in Keys, channel \in ChannelArgs :
          /\ (phase[id] = "fresh" /\ last'.ret = 1 /\ Reserving /\ ReserveOp(id, channel))
               => /\ task'[id].threadID \in Threads
                  /\ workers'[task'[id].threadID] =
                       [pc |-> "start", key |-> id, kind |-> task[id].mode]
          /\ (err' = "none" /\ last'.ret = 0 /\ Reserving /\ ReserveOp(id, channel))
               => UNCHANGED <<task, workers>>]_vars

\* the first reservation of a task has just succeeded: its thread is there and has
\* not run yet
C7_Witness ==
  /\ last.op \in {"CheckInputChannel", "AcquireOutputChannel"}
  /\ last.ret = 1
  /\ \E id \in Keys :
       /\ phase[id] = "reserved"
       /\ ~task[id].isRunning
       /\ task[id].threadID \in Threads
       /\ workers[task[id].threadID].pc = "start"
       /\ Cardinality(ThreadsOf(id)) = 1

\* C8: once a ReleaseOutputChannel has emptied the task and cleared isRunning, the
\* threads of the task eventually have all returned, unless a new reservation
\* succeeds or the task is unloaded before.
C8_ReleaseStopsWorker ==
  \A id \in Keys : (phase[id] = "quiet") ~> (phase[id] # "quiet" \/ ThreadsOf(id) = {})

\* C9: after a ReleaseOutputChannel has emptied the task and cleared isRunning, and
\* until a reservation succeeds, every Write returns false and stores nothing.
C9_NoWriteAfterLastRelease ==
  [][\A id \in Keys, channel \in ChannelArgs, value \in Values :
       (phase[id] = "quiet" /\ Write(id, channel, value))
         => (last'.ret = 0 /\ UNCHANGED task)]_vars

\* C10: every public operation called with an identifier that is not registered
\* returns 0, faults nowhere and changes nothing, in every state.
C10_UnknownIdIsNoOp ==
  [][\A id \in Keys :
       (~Registered(id) /\ AnyOp(id))
         => (err' = "none" /\ last'.ret = 0 /\ UNCHANGED <<tasksList, task, hw, workers>>)]_vars

\* C11: an InitDevice of an unregistered name whose load fails (no DAQmx context
\* is added) faults nowhere, returns -1 and leaves the name unregistered and the
\* tasks as they are.
C11_FailedOpenIsClean ==
  [][\A name \in TaskNames :
       (~Registered(TaskKey(name)) /\ hw'[name] = hw[name] /\ InitDevice(name))
         => /\ err' = "none"
            /\ last' = Result("InitDevice", TaskKey(name), 0, -1)
            /\ ~Registered(TaskKey(name))'
            /\ UNCHANGED task]_vars

\* C17: the program never faults in UnloadTaskData on an array of a partly built
\* task that was never allocated.
C17_UnloadSafeOnPartialTask == err # "UninitRead"

\* C12: in every state each task has at most one thread that has not returned.
C12_OneWorkerPerTask == \A id \in Keys : Cardinality(ThreadsOf(id)) <= 1

\* C13: no step decreases a use count of a READ task that stays loaded.
C13_ReadCountsMonotonic ==
  [][\A id \in Keys :
       (task[id].alloc /\ task'[id].alloc /\ task[id].mode = READ)
         => \A c \in DOMAIN task[id].channelUsesList :
              task'[id].channelUsesList[c] >= task[id].channelUsesList[c]]_vars

\* C14: with caller threads that call CheckInputChannel at the same time, no use
\* count of a READ task ever exceeds SIGNAL_INPUT_CHANNEL_MAX_USES.
C14_CountNeverExceedsMax ==
  \A id \in Keys :
    (task[id].alloc /\ task[id].mode = READ)
      => \A c \in DOMAIN task[id].channelUsesList :
           task[id].channelUsesList[c] <= SIGNAL_INPUT_CHANNEL_MAX_USES

\* a stop of the task of key id was requested: CheckTask has cleared isRunning,
\* in ReleaseOutputChannel or in EndDevice
StopRequested(id) ==
  \/ phase[id] = "quiet"
  \/ caller.pc = "wait" /\ caller.key = id

\* C15: for a loaded task a worker thread is alive iff isRunning is true or a stop
\* is in progress: no state has a live worker with isRunning false and no stop
\* requested, and no state has isRunning true with no live worker.
C15_WorkerAliveIffRunning ==
  \A id \in Keys :
    task[id].alloc
      => /\ (ThreadsOf(id) # {} /\ ~task[id].isRunning) => StopRequested(id)
         /\ task[id].isRunning => ThreadsOf(id) # {}

\* C16: a transfer error never ends a worker.  After a failed DAQmxReadAnalogF64
\* or DAQmxWriteAnalogF64 the thread is still in its loop and the task, with its
\* channelValuesList, is as before the transfer; and a thread of a task that is
\* not being freed leaves its loop only from a state where isRunning is false.
C16_TransferErrorNotFatal ==
  [][\A w \in DOMAIN round :
       (workers[w].pc = "loop" /\ err' = "none")
         => /\ (round'[w] < 0 /\ round[w] = 0)
                 => /\ workers'[w] = workers[w]
                    /\ task' = task
            /\ (workers'[w].pc # "loop" /\ task'[Mine(w)].alloc)
                 => ~task[Mine(w)].isRunning]_vars

\* a write worker's transfer has failed and the thread is still in its loop,
\* with isRunning true
C16_Witness ==
  \E w \in DOMAIN round :
    /\ round[w] < 0
    /\ workers[w].pc = "loop" /\ workers[w].kind = WRITE
    /\ task[Mine(w)].alloc /\ task[Mine(w)].isRunning

\* C18: the registry exists exactly while it holds tasks.  In every state between
\* operations tasksList is allocated iff it holds at least one key; it is
\* allocated by the InitDevice that inserts the first key, and destroyed only by
\* the EndDevice that removes the last one.
C18_RegistryExistsIffNonEmpty ==
  /\ [](err = "none" => (tasksList.alloc <=> tasksList.keys # {}))
  /\ [][err' = "none"
          => /\ (~tasksList.alloc /\ tasksList'.alloc)
                  => (last'.op = "InitDevice" /\ Cardinality(tasksList'.keys) = 1)
             /\ (tasksList.alloc /\ ~tasksList'.alloc)
                  => (last'.op = "EndDevice" /\ Cardinality(tasksList.keys) = 1)]_vars

\* one of two tasks is being closed: the registry holds both entries, and the
\* caller is inside EndDevice
C18_Witness ==
  /\ tasksList.alloc /\ Cardinality(tasksList.keys) = 2
  /\ caller.pc = "wait" /\ caller.op = "EndDevice"

\* C19: a task is never unloaded while a worker thread of it is alive: a step that
\* frees the task of key id starts from a state where no thread of id is live.
C19_NoUnloadWhileWorkerAlive ==
  [][\A id \in Keys :
       (task[id].alloc /\ ~task'[id].alloc /\ err' \in {"none", "UseAfterFree"})
         => ThreadsOf(id) = {}]_vars

\* C20: an output reservation can always be released: ReleaseOutputChannel on a
\* channel that AcquireOutputChannel has reserved leaves the channel's slot at 0,
\* whether or not the worker has set isRunning yet.
C20_OutputAlwaysReleasable ==
  [][\A id \in Keys, channel \in ChannelArgs :
       (<<id, channel>> \in held /\ err' = "none" /\ ReleaseOutputChannel(id, channel))
         => task'[id].channelUsesList[channel] = 0]_vars
====
